---- MODULE Spec2Model ----
(***************************************************************************)
(* SDP creation helpers of src/stream_output/sdp.c: AddressToSDP,          *)
(* IsSDPString, sdp_Start, vsdp_AddAttribute, sdp_AddAttribute and         *)
(* sdp_AddMedia, over an explicit heap of NUL-terminated buffers.          *)
(*                                                                         *)
(* A C string is a sequence of one-byte tokens: an ASCII byte is the       *)
(* one-character string, a byte above 0x7F is the token "xHH".  The        *)
(* terminating NUL is implicit: a buffer holding data d occupies           *)
(* Len(d) + 1 bytes.  A `const char *` argument that may be NULL is a      *)
(* record [null, s].                                                       *)
(***************************************************************************)
EXTENDS Integers, Sequences, FiniteSets, TLC

VARIABLES heap, sdp, ret, last, pre, ncalls

vars == <<heap, sdp, ret, last, pre, ncalls>>

----------------------------------------------------------------------------
(* Bounds of the model.                                                    *)

\* Number of append calls (sdp_AddAttribute, sdp_AddMedia) made on one document.
MaxCalls == 2

----------------------------------------------------------------------------
(* Bytes and strings.                                                      *)

CR == "\r"
LF == "\n"
CRLF == <<CR, LF>>

NULLSTR == [null |-> TRUE, s |-> <<>>]
Str(s) == [null |-> FALSE, s |-> s]

Digits == <<"0", "1", "2", "3", "4", "5", "6", "7", "8", "9">>

\* printf's decimal conversion of a non-negative integer.
RECURSIVE Dec(_)
Dec(n) == IF n < 10 THEN <<Digits[n + 1]>> ELSE Dec(n \div 10) \o <<Digits[(n % 10) + 1]>>

\* "%u" of an int argument: the value is read as unsigned, which for the
\* non-negative values the model passes (ports 0..65535) is the value itself.
FmtU(n) == Dec(n)

\* "%d" of a non-negative argument (the payload type, below 128).
FmtD(n) == Dec(n)

\* strchr (s, c) != NULL
Contains(s, c) == \E i \in 1..Len(s) : s[i] = c

\* Index of the first c in s (strchr), 0 when there is none.
FirstIndex(s, c) == IF Contains(s, c) THEN CHOOSE i \in 1..Len(s) : s[i] = c /\ \A j \in 1..(i - 1) : s[j] # c ELSE 0

\* s starts with p.
StartsWith(s, p) == Len(p) <= Len(s) /\ SubSeq(s, 1, Len(p)) = p

\* s ends with p.
EndsWith(s, p) == Len(p) <= Len(s) /\ SubSeq(s, Len(s) - Len(p) + 1, Len(s)) = p

RECURSIVE Repeat(_, _)
Repeat(c, n) == IF n = 0 THEN <<>> ELSE <<c>> \o Repeat(c, n - 1)

----------------------------------------------------------------------------
(* Socket addresses and the Address Formatter.                             *)

MAXSDPADDRESS == 47

\* offsetof (struct sockaddr, sa_family) + sizeof (addr->sa_family)
SockaddrFamilyEnd == 2

\* sizeof (struct sockaddr_in), sizeof (struct sockaddr_in6)
SizeofSockaddrIn == 16
SizeofSockaddrIn6 == 28

\* Numeric host text of an address, as getnameinfo (NI_NUMERICHOST) prints it.
NumericHost(addr) ==
    IF addr.family = "AF_INET"
    THEN Dec(addr.ip[1]) \o <<".">> \o Dec(addr.ip[2]) \o <<".">> \o Dec(addr.ip[3]) \o <<".">> \o Dec(addr.ip[4])
    ELSE addr.text

\* vlc_getnameinfo (addr, addrlen, host, hostlen, NULL, NI_NUMERICHOST):
\* [rc, host]; rc # 0 when the family is unsupported, the address is shorter
\* than its family needs, or the text and its NUL do not fit in hostlen bytes.
vlc_getnameinfo(addr, addrlen, hostlen) ==
    LET need == CASE addr.family = "AF_INET" -> SizeofSockaddrIn
                  [] addr.family = "AF_INET6" -> SizeofSockaddrIn6
                  [] OTHER -> SockaddrFamilyEnd
        h == NumericHost(addr)
    IN IF addr.family = "AF_UNSPEC" \/ addrlen < need \/ Len(h) + 1 > hostlen
       THEN [rc |-> 1, host |-> <<>>]
       ELSE [rc |-> 0, host |-> h]

\* net_SockAddrIsMulticast: IPv4 class D (224.0.0.0/4).
net_SockAddrIsMulticast(addr, addrlen) ==
    addr.family = "AF_INET" /\ addrlen >= SizeofSockaddrIn /\ addr.ip[1] >= 224 /\ addr.ip[1] <= 239

AddrFail == [ok |-> FALSE, buf |-> <<>>]

\* The AF_INET case without the multicast "/255".
AddressToSDP_inet_mut(addr, addrlen, buf) == [ok |-> TRUE, buf |-> [buf EXCEPT ![6] = "4"]]
\* case AF_INET
AddressToSDP_inet(addr, addrlen, buf) ==
    LET b == IF net_SockAddrIsMulticast(addr, addrlen) THEN buf \o <<"/", "2", "5", "5">> ELSE buf
    IN [ok |-> TRUE, buf |-> [b EXCEPT ![6] = "4"]]

\* case AF_INET6
AddressToSDP_inet6(addr, addrlen, buf) ==
    LET ptr == FirstIndex(buf, "%")
        b == IF ptr # 0 THEN SubSeq(buf, 1, ptr - 1) ELSE buf
    IN [ok |-> TRUE, buf |-> [b EXCEPT ![6] = "6"]]

AddressToSDP(addr, addrlen) ==
    IF addrlen < SockaddrFamilyEnd THEN AddrFail
    ELSE LET ni == vlc_getnameinfo(addr, addrlen, MAXSDPADDRESS - 7)
             buf == <<"I", "N", " ", "I", "P", "*", " ">> \o ni.host
         IN IF ni.rc # 0 THEN AddrFail
            ELSE CASE addr.family = "AF_INET" -> AddressToSDP_inet(addr, addrlen, buf)
                   [] addr.family = "AF_INET6" -> AddressToSDP_inet6(addr, addrlen, buf)
                   [] OTHER -> AddrFail

----------------------------------------------------------------------------
(* Inputs of the address formatter.                                        *)

Ip4(a, b, c, d) == [family |-> "AF_INET", ip |-> <<a, b, c, d>>, text |-> <<>>]
Ip6(t) == [family |-> "AF_INET6", ip |-> <<>>, text |-> t]

\* A numeric IPv6 text of 33 characters; with a scope id it no longer fits.
LongIp6 == <<"2", "0", "0", "1", ":">> \o Repeat("f", 4) \o <<":">> \o Repeat("f", 4) \o <<":">> \o Repeat("f", 4) \o <<":">> \o Repeat("f", 4) \o <<":">> \o Repeat("f", 4) \o <<":", ":", "1">>

Ip4Hosts == { Ip4(239, 1, 1, 1), Ip4(224, 0, 0, 1), Ip4(192, 168, 0, 1), Ip4(223, 255, 255, 255), Ip4(240, 0, 0, 1), Ip4(10, 0, 0, 7) }

Ip6Hosts == { Ip6(<<":", ":", "1">>), Ip6(<<"f", "f", "0", "2", ":", ":", "1">>), Ip6(<<"f", "e", "8", "0", ":", ":", "1", "%", "e", "t", "h", "0">>), Ip6(<<"f", "e", "8", "0", ":", ":", "2", "%", "1", "%", "2">>), Ip6(LongIp6), Ip6(LongIp6 \o <<"%">> \o Repeat("e", 8)) }

OtherHosts == { [family |-> "AF_UNIX", ip |-> <<>>, text |-> <<"l", "o", "c", "a", "l", "h", "o", "s", "t">>], [family |-> "AF_UNSPEC", ip |-> <<>>, text |-> <<>>] }

Addresses == Ip4Hosts \cup Ip6Hosts \cup OtherHosts

AddrLens == {0, 1, 2, 8, 16, 28, 128}

----------------------------------------------------------------------------
(* The heap.  Addresses are 1..NAddr, 0 is NULL.  A block is live or free;  *)
(* a live block of `size` bytes holds the string `data` and its NUL.        *)

NAddr == 2
Addr == 1..NAddr
NULL == 0

FreeBlock == [live |-> FALSE, size |-> 0, data |-> <<>>]
EmptyHeap == [a \in Addr |-> FreeBlock]

\* What an allocation may return.  malloc: NULL or a block not in use (the
\* first one: free blocks are interchangeable).  realloc: NULL, the block
\* where it is, or any block not in use.
MallocTargets(h) == {NULL} \cup {a \in Addr : ~h[a].live /\ \A b \in 1..(a - 1) : h[b].live}
ReallocTargets(h, p) == {NULL, p} \cup {a \in Addr : ~h[a].live}

\* malloc (size), returning address `to`.
malloc(h, size, to) ==
    IF to = NULL THEN h ELSE [h EXCEPT ![to] = [live |-> TRUE, size |-> size, data |-> <<>>]]

\* realloc (p, size), returning address `to`: on NULL the old block is
\* untouched; otherwise the content moves with the block and p is freed.
realloc(h, p, size, to) ==
    IF to = NULL THEN h
    ELSE IF to = p THEN [h EXCEPT ![p].size = size]
    ELSE [h EXCEPT ![to] = [live |-> TRUE, size |-> size, data |-> h[p].data], ![p] = FreeBlock]

\* sprintf (p + off, ...) producing `text`: the string at p becomes its first
\* off bytes followed by text (and the NUL); text put beyond the string's NUL
\* is not part of the string.
Write(h, p, off, text) == [h EXCEPT ![p].data = IF off <= Len(@) THEN SubSeq(@, 1, off) \o text ELSE @]

\* strlen (p)
strlen(h, p) == Len(h[p].data)

\* The written string and its NUL lie within the block.
Fits(h, p) == Len(h[p].data) + 1 <= h[p].size

----------------------------------------------------------------------------
(* The String Validator.                                                   *)

Lead2 == {"xC3"}
Cont == {"xA9"}
NeverValid == {"xFF"}

\* IsUTF8 (vlc_charset): every byte above 0x7F belongs to a well-formed
\* multi-byte sequence.
RECURSIVE IsUTF8(_)
IsUTF8(str) ==
    IF str = <<>> THEN TRUE
    ELSE IF Head(str) \in Lead2 THEN Len(str) >= 2 /\ str[2] \in Cont /\ IsUTF8(Tail(Tail(str)))
    ELSE IF Head(str) \in Cont \cup NeverValid THEN FALSE
    ELSE IsUTF8(Tail(str))

\* IsSDPString without the line-feed test.
IsSDPString_mut(str) == IF Contains(str, CR) THEN FALSE ELSE IsUTF8(str)
IsSDPString(str) ==
    IF Contains(str, CR) THEN FALSE
    ELSE IF Contains(str, LF) THEN FALSE
    ELSE IF ~IsUTF8(str) THEN FALSE
    ELSE TRUE

----------------------------------------------------------------------------
(* sdp_Start.                                                              *)

PACKAGE_STRING == <<"v", "l", "c">>

S_Unnamed == <<"U", "n", "n", "a", "m", "e", "d">>
S_NA == <<"N", "/", "A">>

\* sprintf (sfilter, "\r\na=source-filter: incl IN IP%c * %s", machine[5], machine + 7)
SourceFilter(machine) ==
    CRLF \o <<"a", "=", "s", "o", "u", "r", "c", "e", "-", "f", "i", "l", "t", "e", "r", ":", " ", "i", "n", "c", "l", " ", "I", "N", " ", "I", "P">>
         \o <<machine[6]>> \o <<" ", "*", " ">> \o SubSeq(machine, 8, Len(machine))

\* The source-filter text of lines 118-126.
\* sfilter left empty whatever the source address.
sfilterOf_mut(src, srclen) == <<>>
sfilterOf(src, srclen) ==
    IF srclen > 0
    THEN LET machine == AddressToSDP(src, srclen)
         IN IF machine.ok THEN SourceFilter(machine.buf) ELSE <<>>
    ELSE <<>>

\* The text asprintf formats at lines 128-154.
StartText(name, description, preurl, url, premail, email, prephone, phone, connection, sfilter, now, hostname) ==
    <<"v", "=", "0">>
    \o CRLF \o <<"o", "=", "-", " ">> \o Dec(now) \o <<" ">> \o Dec(now) \o <<" ", "I", "N", " ", "I", "P">> \o <<connection[6]>> \o <<" ">> \o hostname
    \o CRLF \o <<"s", "=">> \o name
    \o CRLF \o <<"i", "=">> \o description
    \o preurl \o url
    \o premail \o email
    \o prephone \o phone
    \o CRLF \o <<"c", "=">> \o connection
    \o CRLF \o <<"t", "=", "0", " ", "0">>
    \o CRLF \o <<"a", "=", "t", "o", "o", "l", ":">> \o PACKAGE_STRING
    \o CRLF \o <<"a", "=", "r", "e", "c", "v", "o", "n", "l", "y">>
    \o CRLF \o <<"a", "=", "t", "y", "p", "e", ":", "b", "r", "o", "a", "d", "c", "a", "s", "t">>
    \o CRLF \o <<"a", "=", "c", "h", "a", "r", "s", "e", "t", ":", "U", "T", "F", "-", "8">>
    \o sfilter
    \o CRLF

\* sdp_Start on heap h; `in` holds the arguments, the NTP time and the host
\* name; `to` is what asprintf's allocation returns.  Result: [heap, ret].
sdp_Start(h, in, to) ==
    LET name == IF in.name.null THEN S_Unnamed ELSE in.name.s
        description == IF in.description.null THEN S_NA ELSE in.description.s
        preurl == IF in.url.null THEN <<>> ELSE CRLF \o <<"u", "=">>
        url == IF in.url.null THEN <<>> ELSE in.url.s
        premail == IF in.email.null THEN <<>> ELSE CRLF \o <<"e", "=">>
        email == IF in.email.null THEN <<>> ELSE in.email.s
        prephone == IF in.phone.null THEN <<>> ELSE CRLF \o <<"p", "=">>
        phone == IF in.phone.null THEN <<>> ELSE in.phone.s
        connection == AddressToSDP(in.addr, in.addrlen)
    IN IF \/ ~IsSDPString(name) \/ ~IsSDPString(description)
          \/ ~IsSDPString(url) \/ ~IsSDPString(email) \/ ~IsSDPString(phone)
          \/ ~connection.ok
       THEN [heap |-> h, ret |-> NULL]
       ELSE LET sfilter == sfilterOf(in.src, in.srclen)
                text == StartText(name, description, preurl, url, premail, email, prephone, phone, connection.buf, sfilter, in.now, in.hostname)
            IN IF to = NULL THEN [heap |-> h, ret |-> NULL]
               ELSE [heap |-> Write(malloc(h, Len(text) + 1, to), to, 0, text), ret |-> to]

----------------------------------------------------------------------------
(* Inputs of sdp_Start.                                                    *)

NoAddr == [family |-> "AF_UNSPEC", ip |-> <<>>, text |-> <<>>]

StartIn(name, description, url, email, phone, src, srclen, addr, addrlen, now) ==
    [name |-> name, description |-> description, url |-> url, email |-> email, phone |-> phone,
     src |-> src, srclen |-> srclen, addr |-> addr, addrlen |-> addrlen, now |-> now, hostname |-> <<"h">>]

Names == { NULLSTR, Str(<<"T">>), Str(<<>>), Str(<<"a", CR, LF, "s", "=", "x">>), Str(<<"a", LF>>), Str(<<"xC3", "xA9">>), Str(<<"xC3">>), Str(<<"xFF">>) }
Descriptions == { NULLSTR, Str(<<"d">>), Str(<<"d", LF, "d">>) }
Urls == { NULLSTR, Str(<<"u">>), Str(<<CR>>) }
Emails == { NULLSTR, Str(<<"e">>), Str(<<"e", "xA9">>) }
Phones == { NULLSTR, Str(<<"1">>), Str(<<"1", CR, LF>>) }
SessionAddrs == { <<Ip4(239, 1, 1, 1), 16>>, <<Ip6(<<"f", "f", "0", "2", ":", ":", "1">>), 28>>, <<Ip4(10, 0, 0, 7), 8>>, <<NoAddr, 16>> }
SourceAddrs == { <<NoAddr, 0>>, <<Ip4(10, 0, 0, 7), 16>>, <<Ip6(<<"f", "e", "8", "0", ":", ":", "1", "%", "e", "t", "h", "0">>), 28>>, <<Ip4(10, 0, 0, 7), 8>> }

\* Every combination, for the checks of sdp_Start itself.
AllStartInputs ==
    { StartIn(n, d, u, e, p, s[1], s[2], a[1], a[2], 7) :
        n \in Names, d \in Descriptions, u \in Urls, e \in Emails, p \in Phones, s \in SourceAddrs, a \in SessionAddrs }

\* The documents the append operations are exercised on.
BuilderStartInputs ==
    { StartIn(Str(<<"T">>), NULLSTR, NULLSTR, NULLSTR, NULLSTR, NoAddr, 0, Ip4(239, 1, 1, 1), 16, 7),
      StartIn(Str(<<"a", LF>>), NULLSTR, NULLSTR, NULLSTR, NULLSTR, NoAddr, 0, Ip4(239, 1, 1, 1), 16, 7) }

----------------------------------------------------------------------------
(* The state: the heap, the caller's document pointer `sdp` (the variable   *)
(* whose address the append operations take), the value `ret` the last call *)
(* returned, a record `last` of the last call, the document `pre` as it was *)
(* before that call, and the number of append calls made.                   *)

NoCall == [op |-> "none", fault |-> "none"]

Init ==
    /\ heap = EmptyHeap
    /\ sdp = NULL
    /\ ret = NULL
    /\ last = NoCall
    /\ pre = <<>>
    /\ ncalls = 0

\* char *sdp = sdp_Start (...), for inputs drawn from `inputs`.
DoStart(inputs) ==
    /\ last.op = "none"
    /\ \E in \in inputs, to \in MallocTargets(heap) :
         LET r == sdp_Start(heap, in, to)
         IN /\ heap' = r.heap
            /\ ret' = r.ret
            /\ sdp' = r.ret
            /\ last' = [op |-> "sdp_Start", in |-> in, to |-> to, fault |-> "none"]
    /\ UNCHANGED <<pre, ncalls>>

StartAny == DoStart(AllStartInputs)

NextStart == StartAny

SpecStart == Init /\ [][NextStart]_vars

----------------------------------------------------------------------------
(* printf formats.  A format is a sequence of tokens: a literal byte, or a  *)
(* conversion "%s" / "%u" that consumes the next argument.                  *)

HasConversion(fmt) == \E i \in 1..Len(fmt) : fmt[i] \in {"%s", "%u"}

\* What vsnprintf / vsprintf make of fmt and its arguments.
RECURSIVE Format(_, _)
Format(fmt, args) ==
    IF fmt = <<>> THEN <<>>
    ELSE IF Head(fmt) = "%u" THEN FmtU(Head(args)) \o Format(Tail(fmt), Tail(args))
    ELSE IF Head(fmt) = "%s" THEN Head(args) \o Format(Tail(fmt), Tail(args))
    ELSE <<Head(fmt)>> \o Format(Tail(fmt), args)

\* sprintf (buf, fmt, ap) with the va_list itself passed where the arguments
\* are expected (line 172).  A format without conversions reads no argument
\* and is printed as it is.  With conversions the arguments read are not the
\* caller's: the behaviour is undefined, and the text is whatever the build
\* makes of it -- a text that fits in what was reserved (at best the one
\* meant), one that does not fit, or no text at all (a crash, "%s" of a wild
\* pointer).
UBOutcomes == {"intended", "long", "crash"}

SprintfVaList(fmt, args, ub) ==
    IF ~HasConversion(fmt) \/ ub = "intended" THEN Format(fmt, args)
    ELSE Repeat("?", Len(Format(fmt, args)) + 3)

----------------------------------------------------------------------------
(* The append operations, on a machine state                                *)
(*   m = [heap, sdp, ret, fails, fault, valid]                              *)
(* where sdp is the caller's variable *sdp, ret the value returned, fails   *)
(* the allocations of the call that returned NULL, fault the undefined      *)
(* behaviour the call ran into ("none" when it did not), and valid whether  *)
(* the allocation results chosen are ones the heap can give.                *)

Machine(h, p) == [heap |-> h, sdp |-> p, ret |-> NULL, fails |-> {}, fault |-> "none", valid |-> TRUE]

\* The fault of a write into block p: past the end of the block or none.
WriteFault(h, p) == IF Fits(h, p) THEN "none" ELSE "overrun"

S_AttrFmtSizeof == Len(<<"a", "=", ":", CR, LF>>) + 1
S_AttrBareSizeof == Len(<<"a", "=", CR, LF>>) + 1

\* Where vsdp_AddAttribute starts to write: ret + oldlen.
\* Writing from the start of the buffer instead.
AttrOffset_mut(oldlen) == 0
AttrOffset(oldlen) == oldlen

vsdp_AddAttribute(m, name, fmt, args, to, ub) ==
    LET oldlen == strlen(m.heap, m.sdp)
        addlen == S_AttrFmtSizeof + Len(name) + Len(Format(fmt, args))
        h1 == realloc(m.heap, m.sdp, oldlen + addlen, to)
        head == <<"a", "=">> \o name \o <<":">>
        h2 == Write(h1, to, AttrOffset(oldlen), head)
        oldlen2 == oldlen + Len(head)
        h3 == Write(h2, to, oldlen2, SprintfVaList(fmt, args, ub))
    IN IF to \notin ReallocTargets(m.heap, m.sdp) THEN [m EXCEPT !.valid = FALSE]
       ELSE IF to = NULL THEN [m EXCEPT !.ret = NULL, !.fails = @ \cup {name}]
       ELSE IF HasConversion(fmt) /\ ub = "crash" THEN [m EXCEPT !.heap = h2, !.ret = NULL, !.fault = "crash"]
       ELSE [m EXCEPT !.heap = h3, !.sdp = to, !.ret = to, !.fault = WriteFault(h3, to)]

\* The bare form, lines 189-197.
\* The bare form written as *sdp = realloc (*sdp, ...): a NULL result
\* overwrites the caller's pointer.
AddAttributeBare_mut(m, name, to) ==
    LET oldlen == strlen(m.heap, m.sdp)
        h1 == realloc(m.heap, m.sdp, oldlen + Len(name) + S_AttrBareSizeof, to)
        h2 == Write(h1, to, oldlen, <<"a", "=">> \o name \o CRLF)
    IN IF to \notin ReallocTargets(m.heap, m.sdp) THEN [m EXCEPT !.valid = FALSE]
       ELSE IF to = NULL THEN [m EXCEPT !.sdp = NULL, !.ret = NULL, !.fails = @ \cup {name}]
       ELSE [m EXCEPT !.heap = h2, !.ret = to, !.fault = WriteFault(h2, to)]
AddAttributeBare(m, name, to) ==
    LET oldlen == strlen(m.heap, m.sdp)
        h1 == realloc(m.heap, m.sdp, oldlen + Len(name) + S_AttrBareSizeof, to)
        h2 == Write(h1, to, oldlen, <<"a", "=">> \o name \o CRLF)
    IN IF to \notin ReallocTargets(m.heap, m.sdp) THEN [m EXCEPT !.valid = FALSE]
       ELSE IF to = NULL THEN [m EXCEPT !.ret = NULL, !.fails = @ \cup {name}]
       ELSE [m EXCEPT !.heap = h2, !.ret = to, !.fault = WriteFault(h2, to)]

\* fmt is a [null, s] record; the bare form leaves *sdp as it was.
sdp_AddAttribute(m, name, fmt, args, to, ub) ==
    IF ~fmt.null
    THEN vsdp_AddAttribute(m, name, fmt.s, args, to, ub)
    ELSE AddAttributeBare(m, name, to)

S_video == <<"v", "i", "d", "e", "o">>
S_RTPAVP == <<"R", "T", "P", "/", "A", "V", "P">>
S_rtpmap == <<"r", "t", "p", "m", "a", "p">>
S_fmtp == <<"f", "m", "t", "p">>
S_pt_s == <<"%u", " ", "%s">>

\* "m=%s %u %s %d\r\nb=RR:0\r\n" of type, dport, protocol, pt
MediaLines(type, dport, protocol, pt) ==
    <<"m", "=">> \o type \o <<" ">> \o FmtU(dport) \o <<" ">> \o protocol \o <<" ">> \o FmtD(pt) \o CRLF
    \o <<"b", "=", "R", "R", ":", "0">> \o CRLF

\* A nested call of sdp_AddAttribute whose result sdp_AddMedia drops; after
\* undefined behaviour nothing more of the call is modelled.
Nested(m, name, fmt, args, to, ub) ==
    IF m.fault # "none" \/ ~m.valid THEN m ELSE sdp_AddAttribute(m, name, fmt, args, to, ub)

\* in: [type, protocol, dport, pt, rtpmap, fmtp]; tos, ubs: the results of
\* the up to three reallocs and the outcomes of the two formatted writes.
sdp_AddMedia(m, in, tos, ubs) ==
    LET inlen == strlen(m.heap, m.sdp)
        type == IF in.type.null THEN S_video ELSE in.type.s
        protocol == IF in.protocol.null THEN S_RTPAVP ELSE in.protocol.s
        lines == MediaLines(type, in.dport, protocol, in.pt)
        outlen == inlen + Len(lines)
        newsdp == tos[1]
        h1 == realloc(m.heap, m.sdp, outlen + 1, newsdp)
        h2 == Write(h1, newsdp, inlen, lines)
        m2 == [m EXCEPT !.heap = h2, !.sdp = newsdp, !.fault = WriteFault(h2, newsdp)]
        m3 == IF ~in.rtpmap.null THEN Nested(m2, S_rtpmap, Str(S_pt_s), <<in.pt, in.rtpmap.s>>, tos[2], ubs[1]) ELSE m2
        m4 == IF ~in.fmtp.null THEN Nested(m3, S_fmtp, Str(S_pt_s), <<in.pt, in.fmtp.s>>, tos[3], ubs[2]) ELSE m3
    IN IF newsdp \notin ReallocTargets(m.heap, m.sdp) THEN [m EXCEPT !.valid = FALSE]
       ELSE IF newsdp = NULL THEN [m EXCEPT !.ret = NULL, !.fails = @ \cup {<<"m", "=">>}]
       ELSE IF m4.fault # "none" THEN [m4 EXCEPT !.ret = NULL]
       ELSE [m4 EXCEPT !.ret = newsdp]

----------------------------------------------------------------------------
(* Inputs of the append operations.                                        *)

AttrIn(name, fmt, args) == [name |-> name, fmt |-> fmt, args |-> args]

AttrInputs ==
    { AttrIn(<<"x">>, NULLSTR, <<>>),
      AttrIn(<<"x">>, Str(<<"v">>), <<>>),
      AttrIn(<<"y">>, Str(<<"%s">>), << <<"z", "z">> >>) }

MediaIn(type, protocol, dport, pt, rtpmap, fmtp) ==
    [type |-> type, protocol |-> protocol, dport |-> dport, pt |-> pt, rtpmap |-> rtpmap, fmtp |-> fmtp]

S_H264 == <<"H", "2", "6", "4", "/", "9", "0", "0", "0", "0">>
S_audio == <<"a", "u", "d", "i", "o">>

MediaInputs ==
    { MediaIn(NULLSTR, NULLSTR, 5004, 96, Str(S_H264), NULLSTR),
      MediaIn(Str(S_audio), Str(<<"u", "d", "p">>), 0, 0, NULLSTR, NULLSTR),
      MediaIn(NULLSTR, NULLSTR, 5004, 96, Str(S_H264), Str(<<"x", "=", "1">>)),
      MediaIn(Str(S_audio), NULLSTR, 6000, 97, NULLSTR, Str(<<"x", "=", "1">>)) }

----------------------------------------------------------------------------
(* The builder: one sdp_Start, then up to MaxCalls appends.                 *)

\* The pointer the caller's variable holds when it makes the next call: what
\* the last call left in it, or the value that call returned.
CallerPointers == {sdp} \cup ({ret} \ {NULL})

\* An append can be called: there is a document and no call has run into
\* undefined behaviour.
CanAppend == sdp # NULL /\ last.op # "none" /\ last.fault = "none" /\ ncalls < MaxCalls

\* The state after a call that took the machine from the caller's pointer cur to m.
Called(op, in, cur, m) ==
    /\ m.valid
    /\ heap' = m.heap
    /\ sdp' = m.sdp
    /\ ret' = m.ret
    /\ last' = [op |-> op, in |-> in, cur |-> cur, fails |-> m.fails, fault |-> m.fault]
    /\ pre' = heap[cur].data
    /\ ncalls' = ncalls + 1

\* A call on a pointer to a freed buffer: strlen (*sdp) reads freed memory.
UseAfterFree(op, in, cur) ==
    /\ heap' = heap
    /\ sdp' = cur
    /\ ret' = NULL
    /\ last' = [op |-> op, in |-> in, cur |-> cur, fails |-> {}, fault |-> "use-after-free"]
    /\ pre' = <<>>
    /\ ncalls' = ncalls + 1

Start == DoStart(BuilderStartInputs)

\* The results an allocation of the call may be given, and the outcomes of a
\* formatted write; a slot the call does not use is fixed.
AllocChoices(used) == IF used THEN {NULL} \cup Addr ELSE {NULL}
UBChoices(used) == IF used THEN UBOutcomes ELSE {"intended"}

AddAttribute ==
    /\ CanAppend
    /\ \E cur \in CallerPointers, in \in AttrInputs :
         \E to \in AllocChoices(TRUE) :
           \E ub \in UBChoices(~in.fmt.null /\ HasConversion(in.fmt.s) /\ to # NULL) :
             IF heap[cur].live
             THEN Called("sdp_AddAttribute", in, cur, sdp_AddAttribute(Machine(heap, cur), in.name, in.fmt, in.args, to, ub))
             ELSE UseAfterFree("sdp_AddAttribute", in, cur)

AddMedia ==
    /\ CanAppend
    /\ \E cur \in CallerPointers, in \in MediaInputs :
         \E t1 \in AllocChoices(TRUE) :
           \E t2 \in AllocChoices(t1 # NULL /\ ~in.rtpmap.null) :
             \E u1 \in UBChoices(t2 # NULL) :
               \E t3 \in AllocChoices(t1 # NULL /\ ~in.fmtp.null /\ u1 = "intended") :
                 \E u2 \in UBChoices(t3 # NULL) :
                   /\ in.pt < 128
                   /\ IF heap[cur].live
                      THEN Called("sdp_AddMedia", in, cur, sdp_AddMedia(Machine(heap, cur), in, <<t1, t2, t3>>, <<u1, u2>>))
                      ELSE UseAfterFree("sdp_AddMedia", in, cur)

Next == Start \/ AddAttribute \/ AddMedia

Spec == Init /\ [][Next]_vars

----------------------------------------------------------------------------
(* The address formatter on its own.                                       *)

InitAddr ==
    /\ heap = EmptyHeap
    /\ sdp = NULL
    /\ ret = NULL
    /\ pre = <<>>
    /\ ncalls = 0
    /\ \E a \in Addresses, n \in AddrLens : last = [op |-> "input", addr |-> a, addrlen |-> n]

CallAddressToSDP ==
    /\ last.op = "input"
    /\ last' = [op |-> "AddressToSDP", addr |-> last.addr, addrlen |-> last.addrlen, out |-> AddressToSDP(last.addr, last.addrlen)]
    /\ UNCHANGED <<heap, sdp, ret, pre, ncalls>>

NextAddr == CallAddressToSDP

SpecAddr == InitAddr /\ [][NextAddr]_vars

----------------------------------------------------------------------------
(* Vocabulary of the properties.                                           *)

\* The positions in s where a CRLF pair starts, and the k-th of them.
CRLFAt(s) == {i \in 1..(Len(s) - 1) : s[i] = CR /\ s[i + 1] = LF}
NthCRLF(s, k) == CHOOSE i \in CRLFAt(s) : Cardinality({j \in CRLFAt(s) : j < i}) = k - 1

\* The pieces of s between CRLF pairs; the last piece is what follows the
\* last CRLF.
SplitCRLF(s) ==
    LET n == Cardinality(CRLFAt(s))
    IN [k \in 1..(n + 1) |->
          SubSeq(s, IF k = 1 THEN 1 ELSE NthCRLF(s, k - 1) + 2, IF k = n + 1 THEN Len(s) ELSE NthCRLF(s, k) - 1)]

\* The lines of a document that ends in CRLF.
Lines(doc) == LET parts == SplitCRLF(doc) IN SubSeq(parts, 1, Len(parts) - 1)

\* A sequence of <type>=<value> lines, each one ended by CRLF.
WellFormedLines(doc) ==
    LET parts == SplitCRLF(doc)
    IN /\ parts[Len(parts)] = <<>>
       /\ Len(parts) >= 2
       /\ \A i \in 1..(Len(parts) - 1) :
            /\ Len(parts[i]) >= 2
            /\ parts[i][2] = "="
            /\ ~Contains(parts[i], CR)
            /\ ~Contains(parts[i], LF)

\* Number of occurrences of byte c in s.
CountOf(s, c) == Cardinality({i \in 1..Len(s) : s[i] = c})

\* The text of s before its first '%'.
RECURSIVE BeforePercent(_)
BeforePercent(s) == IF s = <<>> \/ Head(s) = "%" THEN <<>> ELSE <<Head(s)>> \o BeforePercent(Tail(s))

LiveAddrs == {a \in Addr : heap[a].live}

LastAppend == last.op \in {"sdp_AddAttribute", "sdp_AddMedia"}

\* The last call was an append that returned a buffer.
Succeeded == LastAppend /\ last.fault = "none" /\ ret # NULL

StartSucceeded == last.op = "sdp_Start" /\ ret # NULL

\* A supplied text field that is not line-safe.
Unsafe(f) == ~f.null /\ (Contains(f.s, CR) \/ Contains(f.s, LF) \/ ~IsUTF8(f.s))

SomeUnsafe(in) == Unsafe(in.name) \/ Unsafe(in.description) \/ Unsafe(in.url) \/ Unsafe(in.email) \/ Unsafe(in.phone)

Opt(present, line) == IF present THEN <<line>> ELSE <<>>

----------------------------------------------------------------------------
(* Properties.                                                             *)

\* C1: after sdp_Start and any successful appends, the document is a
\* well-formed sequence of lines, every one of them, the last included,
\* ending in CRLF.
C1_EveryLineEndsInCRLF ==
    (StartSucceeded \/ Succeeded) => \A a \in LiveAddrs : WellFormedLines(heap[a].data)

\* C2: sdp_AddMedia is all-or-nothing: when an allocation of the call fails,
\* the call returns NULL and the caller's document is as it was before.
C2_AddMediaAllOrNothing ==
    (last.op = "sdp_AddMedia" /\ last.fault = "none" /\ last.fails # {}) =>
        /\ ret = NULL
        /\ \A a \in LiveAddrs : heap[a].data = pre

\* C3: after a successful append the pointer returned and the caller's *sdp
\* are equal and designate the live buffer that holds the whole document.
C3_ReturnedIsHandleAndLive ==
    Succeeded => (ret = sdp /\ heap[ret].live /\ StartsWith(heap[ret].data, pre))

\* C4: when the allocation inside sdp_AddAttribute fails, the call returns
\* NULL, *sdp is unchanged and the original buffer is live with its content
\* unmodified.
C4_AttrAllocFailureKeepsDocument ==
    (last.op = "sdp_AddAttribute" /\ last.fails # {}) =>
        /\ ret = NULL
        /\ sdp = last.cur
        /\ heap[sdp].live
        /\ heap[sdp].data = pre
        /\ LiveAddrs = {sdp}

C4_Witness ==
    /\ last.op = "sdp_AddAttribute"
    /\ last.fails # {}
    /\ ~last.in.fmt.null
    /\ HasConversion(last.in.fmt.s)
    /\ ncalls = 2

\* C5: appends only append: after a successful append the document before
\* the call is an unmodified, proper prefix of the document after it.
C5_AppendOnly ==
    Succeeded =>
        /\ LiveAddrs # {}
        /\ \A a \in LiveAddrs : StartsWith(heap[a].data, pre) /\ Len(heap[a].data) > Len(pre)

C5_Witness ==
    /\ Succeeded
    /\ ncalls = 2
    /\ last.op = "sdp_AddMedia"
    /\ ~last.in.rtpmap.null
    /\ last.fails = {}
    /\ \E a \in LiveAddrs : EndsWith(heap[a].data, S_H264)

\* The block the spec gives for a media descriptor.
ExpectedMediaBlock(in) ==
    LET type == IF in.type.null THEN <<"v", "i", "d", "e", "o">> ELSE in.type.s
        protocol == IF in.protocol.null THEN <<"R", "T", "P", "/", "A", "V", "P">> ELSE in.protocol.s
    IN <<"m", "=">> \o type \o <<" ">> \o Dec(in.dport) \o <<" ">> \o protocol \o <<" ">> \o Dec(in.pt) \o CRLF
       \o <<"b", "=", "R", "R", ":", "0">> \o CRLF
       \o (IF in.rtpmap.null THEN <<>> ELSE <<"a", "=", "r", "t", "p", "m", "a", "p", ":">> \o Dec(in.pt) \o <<" ">> \o in.rtpmap.s \o CRLF)
       \o (IF in.fmtp.null THEN <<>> ELSE <<"a", "=", "f", "m", "t", "p", ":">> \o Dec(in.pt) \o <<" ">> \o in.fmtp.s \o CRLF)

\* C6: a successful sdp_AddMedia (none of its allocations failing) appends
\* exactly the m= line, the b=RR:0 line, and the rtpmap and fmtp lines that
\* were supplied, each with CRLF.
C6_MediaBlockExact ==
    (Succeeded /\ last.op = "sdp_AddMedia" /\ last.fails = {}) =>
        \A a \in LiveAddrs : heap[a].data = pre \o ExpectedMediaBlock(last.in)

\* C7: sdp_Start fails, producing and keeping no buffer, when a supplied
\* field holds CR, LF or invalid UTF-8 or the session address cannot be
\* formatted; a document it returns holds no CR or LF but those that end its
\* own lines.
C7_StartRejectsInjection ==
    last.op = "sdp_Start" =>
        /\ (SomeUnsafe(last.in) \/ ~AddressToSDP(last.in.addr, last.in.addrlen).ok) =>
               (ret = NULL /\ sdp = NULL /\ heap = EmptyHeap)
        /\ ret # NULL =>
               LET doc == heap[ret].data
                   n == 10 + (IF last.in.url.null THEN 0 ELSE 1) + (IF last.in.email.null THEN 0 ELSE 1)
                           + (IF last.in.phone.null THEN 0 ELSE 1)
                           + (IF last.in.srclen > 0 /\ AddressToSDP(last.in.src, last.in.srclen).ok THEN 1 ELSE 0)
               IN CountOf(doc, CR) = n /\ CountOf(doc, LF) = n /\ Len(SplitCRLF(doc)) = n + 1

C7_Witness ==
    /\ last.op = "sdp_Start"
    /\ last.in.name = Str(<<"a", LF>>)
    /\ ~Unsafe(last.in.description) /\ ~Unsafe(last.in.url) /\ ~Unsafe(last.in.email) /\ ~Unsafe(last.in.phone)
    /\ AddressToSDP(last.in.addr, last.in.addrlen).ok
    /\ last.to # NULL
    /\ ret = NULL

\* The line heads the spec gives for a session descriptor, in order.
ExpectedHeads(in) ==
    <<<<"v", "=", "0">>, <<"o", "=", "-", " ">>>>
    \o << <<"s", "=">> \o (IF in.name.null THEN <<"U", "n", "n", "a", "m", "e", "d">> ELSE in.name.s) >>
    \o << <<"i", "=">> \o (IF in.description.null THEN <<"N", "/", "A">> ELSE in.description.s) >>
    \o Opt(~in.url.null, <<"u", "=">> \o in.url.s)
    \o Opt(~in.email.null, <<"e", "=">> \o in.email.s)
    \o Opt(~in.phone.null, <<"p", "=">> \o in.phone.s)
    \o << <<"c", "=", "I", "N", " ", "I", "P">> >>
    \o << <<"t", "=", "0", " ", "0">> >>
    \o << <<"a", "=", "t", "o", "o", "l", ":">> >>
    \o << <<"a", "=", "r", "e", "c", "v", "o", "n", "l", "y">> >>
    \o << <<"a", "=", "t", "y", "p", "e", ":", "b", "r", "o", "a", "d", "c", "a", "s", "t">> >>
    \o << <<"a", "=", "c", "h", "a", "r", "s", "e", "t", ":", "U", "T", "F", "-", "8">> >>
    \o Opt(in.srclen > 0 /\ AddressToSDP(in.src, in.srclen).ok, <<"a", "=", "s", "o", "u", "r", "c", "e", "-", "f", "i", "l", "t", "e", "r", ":">>)

\* Heads that are whole lines.
WholeLine(head) == head[1] \in {"v", "s", "i", "u", "e", "p", "t"} \/ (head[1] = "a" /\ head[Len(head)] # ":")

\* C8: a document sdp_Start returns is, split on CRLF, exactly the lines
\* v=, o=, s=, i=, [u=], [e=], [p=], c=, t=0 0, a=tool, a=recvonly,
\* a=type:broadcast, a=charset:UTF-8, [a=source-filter] in this order, the
\* optional ones present iff supplied (the source filter: iff the source
\* address is supplied and formats); and a source address that does not
\* format does not make sdp_Start fail.
C8_StartStructure ==
    last.op = "sdp_Start" =>
        /\ ret # NULL =>
               LET doc == heap[ret].data
                   lines == Lines(doc)
                   heads == ExpectedHeads(last.in)
               IN /\ EndsWith(doc, CRLF)
                  /\ Len(lines) = Len(heads)
                  /\ \A i \in 1..Len(heads) :
                       IF WholeLine(heads[i]) THEN lines[i] = heads[i] ELSE StartsWith(lines[i], heads[i])
        /\ (~SomeUnsafe(last.in) /\ AddressToSDP(last.in.addr, last.in.addrlen).ok /\ last.to # NULL) => ret # NULL

C8_Witness ==
    /\ StartSucceeded
    /\ ~last.in.url.null /\ last.in.email.null /\ ~last.in.phone.null
    /\ last.in.name.null
    /\ last.in.srclen > 0
    /\ AddressToSDP(last.in.src, last.in.srclen).ok
    /\ Len(Lines(heap[ret].data)) = 13

\* C9: AddressToSDP fails when the length cannot hold the family tag or the
\* numeric host cannot be formatted; gives "IN IP4 <addr>", with "/255"
\* appended iff the address is multicast, for IPv4; "IN IP6 <addr>" cut at
\* the first '%' for IPv6; and fails for any other family.
C9_AddressToSDP ==
    last.op = "AddressToSDP" =>
        LET a == last.addr
            n == last.addrlen
            out == last.out
            ni == vlc_getnameinfo(a, n, 40)
        IN IF n < 2 \/ ni.rc # 0 THEN ~out.ok
           ELSE IF a.family = "AF_INET"
                THEN out.ok /\ out.buf = <<"I", "N", " ", "I", "P", "4", " ">> \o ni.host
                                          \o (IF a.ip[1] \in 224..239 THEN <<"/", "2", "5", "5">> ELSE <<>>)
           ELSE IF a.family = "AF_INET6"
                THEN out.ok /\ out.buf = <<"I", "N", " ", "I", "P", "6", " ">> \o BeforePercent(ni.host)
           ELSE ~out.ok

C9_Witness ==
    /\ last.op = "AddressToSDP"
    /\ last.out.ok
    /\ last.addr.family = "AF_INET"
    /\ EndsWith(last.out.buf, <<"1", "/", "2", "5", "5">>)

\* C10: no append writes past its allocation: the text written and its NUL
\* lie within the size given to the realloc that made the buffer.
C10_NoWritePastAllocation ==
    LastAppend => (last.fault # "overrun" /\ \A a \in LiveAddrs : Len(heap[a].data) + 1 <= heap[a].size)

====
